---- MODULE Spec2Model ----
(***************************************************************************)
(* PortfolioGen: the resume-to-portfolio generation pipeline of app.py and *)
(* libraries.py as a state machine.                                        *)
(*                                                                         *)
(* Texts (AI responses, documents, credentials) are sequences of tokens.   *)
(* A token is one of the literal substrings the code searches for          *)
(* ("===HTML===", the code fence, "html", "<!DOCTYPE", ...), one whitespace *)
(* character, or one other character.  A fence with a language tag is the  *)
(* fence token (three backquotes)                                          *)
(* followed by the word token "html", as it is in the Python string.       *)
(***************************************************************************)
EXTENDS Naturals, Integers, Sequences, FiniteSets, Bags, TLC

VARIABLES
    \* ---- libraries.py: process-wide state -------------------------------
    GOOGLE_API_KEY,     \* os.getenv('GOOGLE_API_KEY'), None when unset
    GROQ_API_KEY,       \* os.getenv('GROQ_API_KEY'), None when unset
    LAST_MODEL_USED,    \* the diagnostic / availability record
    ai_call,            \* the last call_ai_api invocation: its backends' outcomes and its result
    \* ---- app.py: process-wide state -------------------------------------
    active_jobs,        \* the keys of the active_jobs dict
    job_records,        \* the job dict objects, by the key they were created under
    next_job,           \* number of job ids handed out by uuid4 so far
    upload_folder,      \* names in static/uploads, oldest modification first
    generated_folder,   \* names in static/generated, oldest modification first
    artifact_written,   \* what generate last wrote to <job_id>_portfolio.html, by job id
    now,                \* datetime.now(), in hours
    in_flight,          \* generate requests suspended in call_ai_api, a bag of job ids
    completing,         \* generate requests between line 146 and line 147, a bag of
                        \* [job_id, html_size]
    cleanups,           \* the cleanup requests under way, statement by statement
    \* ---- the pure functions, applied to drawn inputs --------------------
    p_text, p_fault, p_done, p_result,        \* parse_and_create_complete_html
    s_entries, s_max_files, s_done, s_result  \* cleanup_old_files

vars == <<GOOGLE_API_KEY, GROQ_API_KEY, LAST_MODEL_USED, ai_call,
          active_jobs, job_records, next_job, upload_folder, generated_folder,
          artifact_written, now, in_flight, completing, cleanups,
          p_text, p_fault, p_done, p_result,
          s_entries, s_max_files, s_done, s_result>>

libVars == <<GOOGLE_API_KEY, GROQ_API_KEY, LAST_MODEL_USED, ai_call>>
threadVars == <<completing, cleanups>>
appVars == <<active_jobs, job_records, next_job, upload_folder, generated_folder,
             artifact_written, now, in_flight, threadVars>>
parseVars == <<p_text, p_fault, p_done, p_result>>
sweepVars == <<s_entries, s_max_files, s_done, s_result>>

\* Python's None where a text may stand: a one-token sequence no text equals.
None == <<"None">>

\* Python truthiness of an optional text: neither None nor ''.
Truthy(x) == x # None /\ x # <<>>

(***************************************************************************)
(* Python str operations on token sequences.                               *)
(***************************************************************************)
WS == " "

\* The sequences over alphabet S of length at most n.
SeqsUpTo(S, n) == UNION {[1..k -> S] : k \in 0..n}

\* str.find for a one-token needle: the first index, 0 when absent (Python: -1).
Find(s, tok) ==
    IF \E i \in 1..Len(s) : s[i] = tok
    THEN CHOOSE i \in 1..Len(s) : s[i] = tok /\ \A k \in 1..(i - 1) : s[k] # tok
    ELSE 0

\* `tok in s`.
Contains(s, tok) == Find(s, tok) # 0

\* str.strip(): leading and trailing whitespace removed.
Strip(s) ==
    IF \A i \in 1..Len(s) : s[i] = WS
    THEN <<>>
    ELSE LET first == CHOOSE i \in 1..Len(s) : s[i] # WS /\ \A k \in 1..(i - 1) : s[k] = WS
             last  == CHOOSE i \in 1..Len(s) : s[i] # WS /\ \A k \in (i + 1)..Len(s) : s[k] = WS
         IN  SubSeq(s, first, last)

\* str.split(tok): the pieces between the occurrences of tok, all of them.
RECURSIVE Split(_, _)
Split(s, tok) ==
    IF ~Contains(s, tok)
    THEN <<s>>
    ELSE LET i == Find(s, tok)
         IN  <<SubSeq(s, 1, i - 1)>> \o Split(SubSeq(s, i + 1, Len(s)), tok)

\* str.replace(pat, ''): the non-overlapping occurrences of pat removed, left to right.
RECURSIVE Remove(_, _)
Remove(s, pat) ==
    IF Len(s) < Len(pat)
    THEN s
    ELSE IF SubSeq(s, 1, Len(pat)) = pat
         THEN Remove(SubSeq(s, Len(pat) + 1, Len(s)), pat)
         ELSE <<Head(s)>> \o Remove(Tail(s), pat)

\* s[:n]
Take(s, n) == SubSeq(s, 1, IF Len(s) < n THEN Len(s) ELSE n)

(***************************************************************************)
(* app.py: parse_and_create_complete_html (the Response Assembler).        *)
(***************************************************************************)
HTML_DELIM == "===HTML==="
CSS_DELIM  == "===CSS==="
JS_DELIM   == "===JS==="
FENCE      == "<3 backquotes>"
DOCTYPE    == "<!DOCTYPE"
HTML_TAG   == "<html"

\* Mutant of SplitSections: the text after the first delimiter is not split further.
SplitSections_Unsplit(ai_text) ==
    IF Contains(ai_text, HTML_DELIM)
    THEN [html |-> Strip(Split(ai_text, HTML_DELIM)[2]), css |-> <<>>, js |-> <<>>]
    ELSE [html |-> <<>>, css |-> <<>>, js |-> <<>>]

\* Lines 415-430: the nested split on the three delimiters.
SplitSections(ai_text) ==
    IF Contains(ai_text, HTML_DELIM)
    THEN LET parts     == Split(ai_text, HTML_DELIM)
             remaining == parts[2]
         IN  IF Contains(remaining, CSS_DELIM)
             THEN LET html_parts    == Split(remaining, CSS_DELIM)
                      remaining_css == IF Len(html_parts) > 1 THEN html_parts[2] ELSE <<>>
                  IN  IF Contains(remaining_css, JS_DELIM)
                      THEN LET css_parts == Split(remaining_css, JS_DELIM)
                           IN  [html |-> Strip(html_parts[1]),
                                css  |-> Strip(css_parts[1]),
                                js   |-> IF Len(css_parts) > 1 THEN Strip(css_parts[2]) ELSE <<>>]
                      ELSE [html |-> Strip(html_parts[1]),
                            css  |-> Strip(remaining_css),
                            js   |-> <<>>]
             ELSE [html |-> Strip(remaining), css |-> <<>>, js |-> <<>>]
    ELSE [html |-> <<>>, css |-> <<>>, js |-> <<>>]

\* Lines 433-435: the code-fence markers removed from each segment.
CleanHtml(s) == Strip(Remove(Remove(s, <<FENCE, "html">>), <<FENCE>>))
CleanCss(s)  == Strip(Remove(Remove(s, <<FENCE, "css">>), <<FENCE>>))
CleanJs(s)   == Strip(Remove(Remove(Remove(s, <<FENCE, "javascript">>), <<FENCE, "js">>), <<FENCE>>))

\* Mutant of FallbackHtml: the raw text is taken whole, no marker is looked for.
FallbackHtml_Whole(ai_text) == ai_text

\* Lines 438-445: the simpler extraction when the markup segment is empty.
FallbackHtml(ai_text) ==
    IF Contains(ai_text, DOCTYPE)
    THEN SubSeq(ai_text, Find(ai_text, DOCTYPE), Len(ai_text))
    ELSE IF Contains(ai_text, HTML_TAG)
         THEN SubSeq(ai_text, Find(ai_text, HTML_TAG), Len(ai_text))
         ELSE ai_text

\* Lines 410-445: the three segments the document is assembled from.
Segments(ai_text) ==
    LET raw  == SplitSections(ai_text)
        html == CleanHtml(raw.html)
    IN  [html_content |-> IF html = <<>> THEN FallbackHtml(ai_text) ELSE html,
         css_content  |-> CleanCss(raw.css),
         js_content   |-> CleanJs(raw.js)]

\* strftime('%Y-%m-%d %H:%M:%S') of the clock.
Timestamp(t) == ToString(t)

\* Mutant of CompleteHtml: the markup segment is returned without the document around it.
CompleteHtml_Bare(seg, t) == seg.html_content

\* Lines 448-519: the f-string, its fixed parts as one token each.
CompleteHtml(seg, t) ==
    <<"<!DOCTYPE html><html lang=en><head>...<style>/* Base styles */.../* AI Generated CSS */">>
    \o (IF seg.css_content # <<>> THEN seg.css_content ELSE <<"/* No CSS generated by AI */">>)
    \o <<"</style></head><body><!-- AI Generated Portfolio -->">>
    \o (IF seg.html_content # <<>> THEN seg.html_content ELSE <<"<!-- No HTML generated by AI -->">>)
    \o <<"<!-- Bootstrap 5 JS --><script src=bootstrap.bundle.min.js></script><!-- AI Generated JavaScript --><script>">>
    \o (IF seg.js_content # <<>> THEN seg.js_content ELSE <<"// No JavaScript generated by AI">>)
    \o <<"</script><!-- Simple footer -->Generated with PortfolioGen | ", Timestamp(t), "</body></html>">>

\* Line 570: the preview of the raw text is cut at 3000 characters.
PREVIEW_LIMIT == 3000

\* Lines 526-579: the fallback document of the except branch.
FallbackDocument(ai_text) ==
    <<"<!DOCTYPE html><html><head><title>Portfolio Generated by PortfolioGen</title>...<pre>">>
    \o (IF Len(ai_text) > PREVIEW_LIMIT THEN Take(ai_text, PREVIEW_LIMIT) \o <<"...">> ELSE ai_text)
    \o <<"</pre>...Back to Generator...</body></html>">>

\* Mutant of parse_and_create_complete_html: the exception of the try body
\* leaves the function.
parse_and_create_complete_html_Raising(ai_text, t, fault) ==
    IF fault
    THEN [raised |-> TRUE, document |-> <<>>]
    ELSE [raised |-> FALSE, document |-> CompleteHtml(Segments(ai_text), t)]

\* Lines 407-579.  fault: a statement of the try body raised (the code gives no
\* string input for which one does; the except branch is there for it).
\* raised: an exception leaves the function.
parse_and_create_complete_html(ai_text, t, fault) ==
    IF fault
    THEN [raised |-> FALSE, document |-> FallbackDocument(ai_text)]
    ELSE [raised |-> FALSE, document |-> CompleteHtml(Segments(ai_text), t)]

(***************************************************************************)
(* libraries.py: the Provider Gateway.                                     *)
(***************************************************************************)
\* Lines 14-20: LAST_MODEL_USED as the module defines it.
LAST_MODEL_USED_DEFAULT ==
    [model |-> "None", provider |-> "None",
     gemini_available |-> FALSE, groq_available |-> FALSE, last_error |-> None]

\* Lines 22-56.  The flag of a backend is set when its key is present and not
\* blank and the SDK's client constructor did not raise.
init_models(gemini_key, groq_key, gemini_client_ok, groq_client_ok) ==
    [LAST_MODEL_USED_DEFAULT EXCEPT
        !.gemini_available = Truthy(gemini_key) /\ Truthy(Strip(gemini_key)) /\ gemini_client_ok,
        !.groq_available   = Truthy(groq_key) /\ Truthy(Strip(groq_key)) /\ groq_client_ok]

\* What an SDK call does: it raises, or it returns a response whose text is
\* None or a string.
SdkErrors == {<<"429 quota exceeded">>, <<"timeout">>}
SdkOutcomes(texts) == [kind : {"raise"}, text : SdkErrors] \cup [kind : {"return"}, text : texts \cup {None}]

\* Lines 76-89.  The function's own except clause turns every exception into None.
call_gemini_api(sdk) ==
    IF sdk.kind = "raise"
    THEN [raised |-> FALSE, error |-> None, value |-> None]
    ELSE IF Truthy(sdk.text)
         THEN [raised |-> FALSE, error |-> None, value |-> Strip(sdk.text)]
         ELSE [raised |-> FALSE, error |-> None, value |-> None]

\* Mutant of call_groq_api: the content is stripped as Gemini's is.
call_groq_api_Stripped(sdk) ==
    IF sdk.kind = "raise" \/ sdk.text = None
    THEN [raised |-> FALSE, error |-> None, value |-> None]
    ELSE [raised |-> FALSE, error |-> None, value |-> Strip(sdk.text)]

\* Lines 91-106.  The message content is returned as it is, not stripped.
call_groq_api(sdk) ==
    IF sdk.kind = "raise"
    THEN [raised |-> FALSE, error |-> None, value |-> None]
    ELSE [raised |-> FALSE, error |-> None, value |-> sdk.text]

\* Line 175: the last error is cut at 200 characters in the aggregate message.
ERROR_LIMIT == 200

\* Lines 172-180: the message of the aggregate exception.
AggregateError(lmu) ==
    <<"All AI services unavailable">>
    \o (IF Truthy(lmu.last_error) THEN <<": ">> \o Take(lmu.last_error, ERROR_LIMIT) ELSE <<>>)

\* Mutant of GeminiAttempt: a successful attempt does not return.
GeminiAttempt_NoReturn(lmu, gemini_key, sdk) ==
    IF Truthy(gemini_key) /\ lmu.gemini_available
    THEN LET r == call_gemini_api(sdk)
         IN  IF Truthy(r.value)
             THEN [tried |-> TRUE, done |-> FALSE, value |-> r.value,
                   lmu |-> [lmu EXCEPT !.model = "Gemini", !.provider = "Google",
                                       !.last_error = None]]
             ELSE [tried |-> TRUE, done |-> FALSE, value |-> r.value, lmu |-> lmu]
    ELSE [tried |-> FALSE, done |-> FALSE, value |-> None, lmu |-> lmu]

\* Mutant of GeminiAttempt: a Gemini that gave nothing is flagged unavailable.
GeminiAttempt_Disabling(lmu, gemini_key, sdk) ==
    LET g == GeminiAttempt_NoReturn(lmu, gemini_key, sdk)
    IN  IF g.tried /\ ~Truthy(g.value)
        THEN [tried |-> TRUE, done |-> FALSE, value |-> g.value,
              lmu |-> [lmu EXCEPT !.gemini_available = FALSE]]
        ELSE [g EXCEPT !.done = g.tried]

\* Lines 116-144: the Gemini attempt.  tried: the backend was invoked;
\* done: the function returns the attempt's value.
GeminiAttempt(lmu, gemini_key, sdk) ==
    IF Truthy(gemini_key) /\ lmu.gemini_available
    THEN LET r == call_gemini_api(sdk)
         IN  IF r.raised
             THEN [tried |-> TRUE, done |-> FALSE, value |-> None,
                   lmu |-> [lmu EXCEPT !.last_error = r.error]]
             ELSE IF Truthy(r.value)
                  THEN [tried |-> TRUE, done |-> TRUE, value |-> r.value,
                        lmu |-> [lmu EXCEPT !.model = "Gemini", !.provider = "Google",
                                            !.last_error = None]]
                  ELSE [tried |-> TRUE, done |-> FALSE, value |-> r.value, lmu |-> lmu]
    ELSE [tried |-> FALSE, done |-> FALSE, value |-> None, lmu |-> lmu]

\* Mutant of GroqAttempt: no fallback, Groq is never called.
GroqAttempt_Skipped(lmu, groq_key, sdk) ==
    [tried |-> FALSE, done |-> FALSE, value |-> None, lmu |-> lmu]

\* Lines 146-170: the Groq attempt.
GroqAttempt(lmu, groq_key, sdk) ==
    IF Truthy(groq_key) /\ lmu.groq_available
    THEN LET r == call_groq_api(sdk)
         IN  IF r.raised
             THEN [tried |-> TRUE, done |-> FALSE, value |-> None,
                   lmu |-> [lmu EXCEPT !.last_error = r.error]]
             ELSE IF Truthy(r.value)
                  THEN [tried |-> TRUE, done |-> TRUE, value |-> r.value,
                        lmu |-> [lmu EXCEPT !.model = "Groq", !.provider = "Groq",
                                            !.last_error = None]]
                  ELSE [tried |-> TRUE, done |-> FALSE, value |-> r.value, lmu |-> lmu]
    ELSE [tried |-> FALSE, done |-> FALSE, value |-> None, lmu |-> lmu]

\* Lines 108-180.  The prompt reaches the backends unchanged and decides nothing
\* here: what a backend does with it is the drawn sdk outcome.
\* invoked: the backends called, in call order; gemini, groq: what each returned
\* (None when it was not called).
call_ai_api(lmu, gemini_key, groq_key, gemini_sdk, groq_sdk) ==
    LET g == GeminiAttempt(lmu, gemini_key, gemini_sdk)
    IN  IF g.done
        THEN [raised |-> FALSE, value |-> g.value, lmu |-> g.lmu,
              invoked |-> <<"Gemini">>, gemini |-> g.value, groq |-> None]
        ELSE LET q       == GroqAttempt(g.lmu, groq_key, groq_sdk)
                 invoked == (IF g.tried THEN <<"Gemini">> ELSE <<>>)
                            \o (IF q.tried THEN <<"Groq">> ELSE <<>>)
             IN  IF q.done
                 THEN [raised |-> FALSE, value |-> q.value, lmu |-> q.lmu,
                       invoked |-> invoked, gemini |-> g.value, groq |-> q.value]
                 ELSE [raised |-> TRUE, value |-> AggregateError(q.lmu), lmu |-> q.lmu,
                       invoked |-> invoked, gemini |-> g.value, groq |-> q.value]

\* Lines 182-184.
get_last_model_used == LAST_MODEL_USED

\* No call_ai_api has run yet.
NoAiCall ==
    [done |-> FALSE, gemini_sdk |-> [kind |-> "raise", text |-> None],
     groq_sdk |-> [kind |-> "raise", text |-> None],
     raised |-> FALSE, value |-> None, invoked |-> <<>>, gemini |-> None, groq |-> None,
     before |-> LAST_MODEL_USED_DEFAULT]

\* The record of one call_ai_api invocation.
AiCallRecord(before, gemini_sdk, groq_sdk, r) ==
    [done |-> TRUE, gemini_sdk |-> gemini_sdk, groq_sdk |-> groq_sdk,
     raised |-> r.raised, value |-> r.value, invoked |-> r.invoked,
     gemini |-> r.gemini, groq |-> r.groq, before |-> before]

\* Import of libraries.py: load_dotenv() and init_models() (lines 11, 59).
InitLib(keys, client_oks) ==
    /\ GOOGLE_API_KEY \in keys
    /\ GROQ_API_KEY \in keys
    /\ \E gemini_client_ok \in client_oks, groq_client_ok \in client_oks :
          LAST_MODEL_USED = init_models(GOOGLE_API_KEY, GROQ_API_KEY,
                                        gemini_client_ok, groq_client_ok)
    /\ ai_call = NoAiCall

(***************************************************************************)
(* app.py: cleanup_old_files (the count-based sweep).                      *)
(* A directory is a sequence of entries [name, isfile, mtime] in the order *)
(* os.listdir yields them.  os.remove of a listed file succeeds.           *)
(***************************************************************************)
\* Mutant of SortByMtime: the files stay in listing order.
SortByMtime_Unsorted(files) == files

\* Line 590: list.sort(key=mtime), a stable sort, oldest first.
RECURSIVE SortByMtime(_)
SortByMtime(files) ==
    IF files = <<>>
    THEN <<>>
    ELSE LET sorted == SortByMtime(SubSeq(files, 1, Len(files) - 1))
             x      == files[Len(files)]
             k      == Cardinality({i \in 1..Len(sorted) : sorted[i].mtime <= x.mtime})
         IN  SubSeq(sorted, 1, k) \o <<x>> \o SubSeq(sorted, k + 1, Len(sorted))

\* Lines 593-599: files.pop(0) and os.remove while more than max_files are left;
\* the names removed.
RECURSIVE OldestBeyond(_, _)
OldestBeyond(sorted, max_files) ==
    IF Len(sorted) > max_files
    THEN {Head(sorted).name} \cup OldestBeyond(Tail(sorted), max_files)
    ELSE {}

IsFile(e) == e.isfile
KeepEntries(entries, removed) == SelectSeq(entries, LAMBDA e : e.name \notin removed)

\* Lines 581-602: the directory after the sweep.
cleanup_old_files(entries, max_files) ==
    LET files   == SelectSeq(entries, IsFile)
        removed == OldestBeyond(SortByMtime(files), max_files)
    IN  KeepEntries(entries, removed)

(***************************************************************************)
(* app.py: the Job Store and the request handlers.                         *)
(* A folder of the application is the sequence of its file names, oldest   *)
(* modification first; the upload of job j is named j in upload_folder and *)
(* its artifact j in generated_folder.  What a handler returns is an       *)
(* operator of the state it runs in and of its inputs.                     *)
(***************************************************************************)
\* Lines 76-77: the bound of the sweeps upload_file runs.
UPLOAD_MAX_FILES == 10
\* Lines 374-375: the bound of the sweeps cleanup runs.
CLEANUP_MAX_FILES == 5

\* os.listdir with os.path.getmtime of a folder of the application.
Listing(folder) == [i \in 1..Len(folder) |-> [name |-> folder[i], isfile |-> TRUE, mtime |-> i]]

\* cleanup_old_files(folder, max_files) on a folder of the application.
Sweep(folder, max_files) ==
    LET left == cleanup_old_files(Listing(folder), max_files)
    IN  [i \in 1..Len(left) |-> left[i].name]

\* os.path.exists(name) in a folder.
InFolder(name, folder) == \E i \in 1..Len(folder) : folder[i] = name
WithoutName(folder, name) == SelectSeq(folder, LAMBDA n : n # name)
WithoutNames(folder, names) == SelectSeq(folder, LAMBDA n : n \notin names)

\* Writing a file: it becomes the most recently modified of its folder.
Written(folder, name) == Append(WithoutName(folder, name), name)

\* Line 29: allowed_file.  A file name is a sequence of tokens, "." one of them.
LowerCase(tok) == IF tok = "PDF" THEN "pdf" ELSE tok
allowed_file(filename) ==
    /\ Contains(filename, ".")
    /\ LowerCase(filename[Len(filename)]) \in {"pdf"}

Response(code, body) == [code |-> code, body |-> body]

\* Lines 66-73: the job record of a new upload.  error, generated_html_path,
\* completed_at and html_size are keys later stages add: until then None, 0
\* (no job id), -1 (no time) and 0 (no document is empty).
NewJob(job_id, t) ==
    [filepath |-> job_id, status |-> "uploaded", created_at |-> t,
     error |-> None, generated_html_path |-> 0, completed_at |-> -1, html_size |-> 0]

\* No cleanup request is under way.
NoCleanups == <<>>

\* Lines 22-26: the application's own state after import.
InitApp ==
    /\ active_jobs = {}
    /\ job_records = <<>>
    /\ next_job = 0
    /\ upload_folder = <<>>
    /\ generated_folder = <<>>
    /\ artifact_written = <<>>
    /\ now = 0
    /\ in_flight = EmptyBag
    /\ completing = EmptyBag
    /\ cleanups = NoCleanups

\* libraries.py lines 61-74: extract_text_from_pdf.  A pdf raises in pdfplumber or
\* has pages, each with a text or None; a line break is whitespace.
extract_text_from_pdf(pdf) ==
    LET RECURSIVE Pages(_)
        Pages(pages) ==
            IF pages = <<>>
            THEN <<>>
            ELSE (IF Truthy(Head(pages)) THEN Head(pages) \o <<WS>> ELSE <<>>) \o Pages(Tail(pages))
    IN  IF pdf.kind = "raise" THEN <<>> ELSE Strip(Pages(pdf.pages))

\* Lines 38-63: the reason upload_file rejects a request, None when it accepts it.
UploadError(has_file, filename, pdf) ==
    IF ~has_file THEN <<"No file part">>
    ELSE IF filename = <<>> THEN <<"No selected file">>
    ELSE IF ~allowed_file(filename) THEN <<"Only PDF files are allowed">>
    ELSE IF Strip(extract_text_from_pdf(pdf)) = <<>> THEN <<"Could not extract text from PDF">>
    ELSE None

\* Lines 36-88: what upload_file returns.
UploadResponse(has_file, filename, pdf) ==
    IF UploadError(has_file, filename, pdf) # None
    THEN Response(400, UploadError(has_file, filename, pdf))
    ELSE Response(200, <<"success">>)

\* Mutant of UploadDiscarded: the saved file is not removed.
UploadDiscarded_Kept(folder, name) == Written(folder, name)

\* Lines 53-62: the upload folder after a file was saved under a fresh name and
\* removed again because no text could be extracted from it.
UploadDiscarded(folder, name) == WithoutName(Written(folder, name), name)

\* Lines 36-47, 61-63: an upload upload_file rejects.  The first three
\* rejections come before anything is saved; the job id of the fourth is in
\* no record and no file name afterwards, uuid4 may as well hand it out again.
UploadRejected(has_file, filename, pdf) ==
    /\ UploadError(has_file, filename, pdf) # None
    /\ upload_folder' = IF UploadError(has_file, filename, pdf) = <<"Could not extract text from PDF">>
                        THEN UploadDiscarded(upload_folder, next_job + 1)
                        ELSE upload_folder
    /\ UNCHANGED <<active_jobs, job_records, next_job, generated_folder, artifact_written,
                   now, in_flight>>
    /\ UNCHANGED <<libVars, parseVars, sweepVars, threadVars>>

\* Lines 36-84: an upload that creates a job.
UploadAccepted(has_file, filename, pdf, max_jobs) ==
    /\ next_job < max_jobs
    /\ UploadError(has_file, filename, pdf) = None
    /\ LET job_id == next_job + 1
       IN  /\ next_job' = job_id
           /\ active_jobs' = active_jobs \cup {job_id}
           /\ job_records' = Append(job_records, NewJob(job_id, now))
           /\ artifact_written' = Append(artifact_written, None)
           /\ upload_folder' = Sweep(Written(upload_folder, job_id), UPLOAD_MAX_FILES)
           /\ generated_folder' = Sweep(generated_folder, UPLOAD_MAX_FILES)
    /\ UNCHANGED <<now, in_flight>>
    /\ UNCHANGED <<libVars, parseVars, sweepVars, threadVars>>

\* Lines 92-95: generate for a token that is not in the store.
GenerateInvalidResponse == Response(400, <<"Invalid job ID or file not uploaded">>)
GenerateInvalid(job_id) ==
    /\ job_id \notin active_jobs
    /\ UNCHANGED vars

\* Mutant of Generating: the request leaves the status as it finds it.
Generating_Skipped(job) == job

\* Lines 98-103: the job once generate has started on it.
Generating(job) == [job EXCEPT !.status = "generating"]

\* Lines 92-113: generate up to the call of the Provider Gateway, where the
\* request is suspended while other requests run.
GenerateBegin(job_id, max_in_flight) ==
    /\ job_id \in active_jobs
    /\ BagCardinality(in_flight) < max_in_flight
    /\ job_records' = [job_records EXCEPT ![job_id] = Generating(job_records[job_id])]
    /\ in_flight' = in_flight (+) SetToBag({job_id})
    /\ UNCHANGED <<active_jobs, next_job, upload_folder, generated_folder,
                   artifact_written, now>>
    /\ UNCHANGED <<libVars, parseVars, sweepVars, threadVars>>

\* Mutant of AiFailed: the status is recorded, the error is not.
AiFailed_ErrorDropped(job, message) == [job EXCEPT !.status = "failed"]

\* Mutant of AiFailed: the error is recorded, the status is not.
AiFailed_StatusKept(job, message) == [job EXCEPT !.error = message]

\* Lines 119-125: the job after call_ai_api raised.
AiFailed(job, message) == [job EXCEPT !.status = "failed", !.error = message]

\* Lines 127-129, 134-136: the job after an empty response or an empty document.
Failed(job) == [job EXCEPT !.status = "failed"]

\* Line 146: the status is set first, once the artifact is written.
StatusCompleted(job) == [job EXCEPT !.status = "completed"]

\* Lines 147-150: the artifact's path, the completion time and the size.
ArtifactRecorded(job, job_id, t, size) ==
    [job EXCEPT !.generated_html_path = job_id, !.completed_at = t, !.html_size = size]

\* Lines 146-150: the job of a request that wrote its artifact.
Completed(job, job_id, t, size) == ArtifactRecorded(StatusCompleted(job), job_id, t, size)

\* Mutant of GenerationFailed: the outer except clause marks nothing.
GenerationFailed_Unmarked(job, in_store, message) == job

\* Lines 161-166: the outer except clause marks the job only while it is in the store.
GenerationFailed(job, in_store, message) ==
    IF in_store THEN [job EXCEPT !.status = "failed", !.error = message] ELSE job

\* Lines 115-166: generate from the return of call_ai_api on: the job, the
\* artifact written (None when none is) and the response.
\* write_ok: open() of the artifact file for writing succeeds.
GenerateOutcome(job_id, ai, fault, write_ok) ==
    LET job == job_records[job_id]
        asm == parse_and_create_complete_html(ai.value, now, fault)
    IN  IF ai.raised
        THEN [job |-> AiFailed(job, ai.value), document |-> None,
              response |-> Response(500, <<"AI generation failed: ">> \o ai.value)]
        ELSE IF ~Truthy(ai.value)
        THEN [job |-> Failed(job), document |-> None,
              response |-> Response(500, <<"AI returned empty response">>)]
        ELSE IF ~asm.raised /\ asm.document = <<>>
        THEN [job |-> Failed(job), document |-> None,
              response |-> Response(500, <<"Could not parse AI response">>)]
        ELSE IF asm.raised \/ ~write_ok
        THEN [job |-> GenerationFailed(job, job_id \in active_jobs, <<"exception">>),
              document |-> None,
              response |-> Response(500, <<"Generation failed: ", "exception">>)]
        ELSE [job |-> Completed(job, job_id, now, Len(asm.document)), document |-> asm.document,
              response |-> Response(200, <<"Portfolio generated successfully!">>)]

\* The call of line 117 with the state the request resumes in.
AiResult(gemini_sdk, groq_sdk) ==
    call_ai_api(LAST_MODEL_USED, GOOGLE_API_KEY, GROQ_API_KEY, gemini_sdk, groq_sdk)

\* Lines 115-166: what generate returns.
GenerateResponse(job_id, gemini_sdk, groq_sdk, fault, write_ok) ==
    GenerateOutcome(job_id, AiResult(gemini_sdk, groq_sdk), fault, write_ok).response

\* Lines 115-166: generate from the return of call_ai_api to its response.
GenerateEnd(job_id, gemini_sdk, groq_sdk, fault, write_ok) ==
    /\ BagIn(job_id, in_flight)
    /\ in_flight' = in_flight (-) SetToBag({job_id})
    /\ LET ai  == AiResult(gemini_sdk, groq_sdk)
           out == GenerateOutcome(job_id, ai, fault, write_ok)
       IN  /\ LAST_MODEL_USED' = ai.lmu
           /\ job_records' = [job_records EXCEPT ![job_id] = out.job]
           /\ IF out.document # None
              THEN /\ generated_folder' = Written(generated_folder, job_id)
                   /\ artifact_written' = [artifact_written EXCEPT ![job_id] = out.document]
              ELSE UNCHANGED <<generated_folder, artifact_written>>
    /\ UNCHANGED <<GOOGLE_API_KEY, GROQ_API_KEY, ai_call>>
    /\ UNCHANGED <<active_jobs, next_job, upload_folder, now>>
    /\ UNCHANGED <<parseVars, sweepVars, threadVars>>

\* open(path).read(): the content of a generated file is what generate last
\* wrote to it; None when there is no such file.
FileContent(name) ==
    IF name \in 1..next_job /\ InFolder(name, generated_folder)
    THEN artifact_written[name]
    ELSE None

\* Lines 173-182: what preview returns once the job is found completed.  A
\* missing key or file ends in the except clause's page.
ReadArtifact(job_id) ==
    IF FileContent(job_records[job_id].generated_html_path) # None
    THEN Response(200, FileContent(job_records[job_id].generated_html_path))
    ELSE Response(200, <<"<h1>Error loading preview</h1>">>)

\* Lines 168-182: what preview returns.
PreviewResponse(job_id) ==
    IF job_id \notin active_jobs \/ job_records[job_id].status # "completed"
    THEN Response(302, <<"/">>)
    ELSE ReadArtifact(job_id)

\* Lines 168-182: preview reads and changes nothing.
Preview(job_id) == UNCHANGED vars

\* Line 385: a job is evicted when it is older than one hour.
TooOld(age) == age > 1

\* Lines 378-386: the jobs the scan at time t selects.
JobsToDelete(t) == {j \in active_jobs : TooOld(t - job_records[j].created_at)}

\* Mutant of EvictedArtifacts: eviction leaves the files.
EvictedArtifacts_Kept(jobs_to_delete) == {}

\* Lines 388-394: the artifacts removed with the evicted jobs.
EvictedArtifacts(jobs_to_delete) ==
    {job_records[j].generated_html_path :
        j \in {k \in jobs_to_delete : job_records[k].generated_html_path # 0}}

\* Lines 396-400: what cleanup returns.
CleanupResponse ==
    Response(200, <<"Cleaned up ", ToString(Cardinality(JobsToDelete(now))), " old jobs, active: ",
                    ToString(Cardinality(active_jobs \ JobsToDelete(now)))>>)

\* Lines 370-404: cleanup.
Cleanup ==
    LET swept          == Sweep(generated_folder, CLEANUP_MAX_FILES)
        jobs_to_delete == JobsToDelete(now)
    IN  /\ upload_folder' = Sweep(upload_folder, CLEANUP_MAX_FILES)
        /\ generated_folder' = WithoutNames(swept, EvictedArtifacts(jobs_to_delete))
        /\ active_jobs' = active_jobs \ jobs_to_delete
        /\ UNCHANGED <<job_records, next_job, artifact_written, now, in_flight>>
        /\ UNCHANGED <<libVars, parseVars, sweepVars, threadVars>>

\* The clock advances by an hour.
Tick(max_time) ==
    /\ now < max_time
    /\ now' = now + 1
    /\ UNCHANGED <<active_jobs, job_records, next_job, upload_folder, generated_folder,
                   artifact_written, in_flight>>
    /\ UNCHANGED <<libVars, parseVars, sweepVars, threadVars>>

(***************************************************************************)
(* The application: requests against the Job Store, interleaved at the     *)
(* call of the Provider Gateway.                                           *)
(***************************************************************************)
MaxJobs == 1
MaxTime == 2
MaxInFlight == 1

\* The uploads tried: no file part, no name, a name without extension, a wrong
\* extension, a pdf pdfplumber fails on, a pdf without text, a pdf with text.
NoPdf == [kind |-> "raise", pages |-> <<>>]
UploadRequests ==
    {[has_file |-> FALSE, filename |-> <<>>, pdf |-> NoPdf],
     [has_file |-> TRUE, filename |-> <<>>, pdf |-> NoPdf],
     [has_file |-> TRUE, filename |-> <<"cv">>, pdf |-> NoPdf],
     [has_file |-> TRUE, filename |-> <<"cv", ".", "txt">>, pdf |-> NoPdf],
     [has_file |-> TRUE, filename |-> <<"cv", ".", "PDF">>, pdf |-> NoPdf],
     [has_file |-> TRUE, filename |-> <<"cv", ".", "pdf">>,
      pdf |-> [kind |-> "ok", pages |-> <<None, <<WS>>>>]],
     [has_file |-> TRUE, filename |-> <<"cv", ".", "pdf">>,
      pdf |-> [kind |-> "ok", pages |-> <<<<"x">>, None>>]]}
\* A backend call fails or answers with a text.  The response handed to the
\* assembler is a string, on which no statement of its try body raises.
BackendOutcomes == {[kind |-> "raise", text |-> <<"timeout">>], [kind |-> "return", text |-> <<HTML_DELIM, "x">>]}

\* Binding of the credentials a deployment makes: unset, or a key.
DeployedKeys == {None, <<"k">>}

\* No input drawn for the pure functions.
IdleParse ==
    /\ p_text = <<>> /\ p_fault = FALSE /\ p_done = FALSE
    /\ p_result = [raised |-> FALSE, document |-> <<>>, html_content |-> <<>>,
                   css_content |-> <<>>, js_content |-> <<>>]
IdleSweep == s_entries = <<>> /\ s_max_files = 0 /\ s_done = FALSE /\ s_result = <<>>

\* The deployments of the application: both credentials bound or neither
\* (SpecAI has the one-credential bindings of the gateway).
Init ==
    /\ InitLib(DeployedKeys, {TRUE})
    /\ GOOGLE_API_KEY = GROQ_API_KEY
    /\ InitApp /\ IdleParse /\ IdleSweep

Next ==
    \/ \E u \in UploadRequests : UploadRejected(u.has_file, u.filename, u.pdf)
    \/ \E u \in UploadRequests : UploadAccepted(u.has_file, u.filename, u.pdf, MaxJobs)
    \/ \E job_id \in 0..MaxJobs : GenerateInvalid(job_id)
    \/ \E job_id \in active_jobs : GenerateBegin(job_id, MaxInFlight)
    \/ \E job_id \in 1..next_job, gemini_sdk \in BackendOutcomes, groq_sdk \in BackendOutcomes,
          write_ok \in BOOLEAN :
          GenerateEnd(job_id, gemini_sdk, groq_sdk, FALSE, write_ok)
    \/ \E job_id \in 0..MaxJobs : Preview(job_id)
    \/ Cleanup
    \/ Tick(MaxTime)

Spec == Init /\ [][Next]_vars

(***************************************************************************)
(* The application in normal operation with working backends: every token  *)
(* is generated once, one request at a time, and the clock stands still.   *)
(***************************************************************************)
MaxJobsRetention == 6

InitRetention == InitLib({<<"k">>}, {TRUE}) /\ InitApp /\ IdleParse /\ IdleSweep

Answer == [kind |-> "return", text |-> <<HTML_DELIM, "x">>]

NextRetention ==
    \/ \E u \in UploadRequests : UploadAccepted(u.has_file, u.filename, u.pdf, MaxJobsRetention)
    \/ \E job_id \in {j \in active_jobs : job_records[j].status = "uploaded"} :
          GenerateBegin(job_id, 1)
    \/ \E job_id \in 1..next_job : GenerateEnd(job_id, Answer, Answer, FALSE, TRUE)
    \/ \E job_id \in 1..next_job : Preview(job_id)
    \/ Cleanup

SpecRetention == InitRetention /\ [][NextRetention]_vars

(***************************************************************************)
(* app.py under the threaded server app.run starts (line 624): a request   *)
(* is a thread, and another request may run between any two statements.    *)
(* generate_portfolio from line 146 on, and cleanup, statement by          *)
(* statement.                                                              *)
(***************************************************************************)
\* Lines 115-146: generate from the return of call_ai_api to the assignment of
\* the status, for a request that writes its artifact.
GenerateWrite(job_id, gemini_sdk, groq_sdk, fault) ==
    /\ BagIn(job_id, in_flight)
    /\ LET ai  == AiResult(gemini_sdk, groq_sdk)
           out == GenerateOutcome(job_id, ai, fault, TRUE)
       IN  /\ out.document # None
           /\ LAST_MODEL_USED' = ai.lmu
           /\ generated_folder' = Written(generated_folder, job_id)
           /\ artifact_written' = [artifact_written EXCEPT ![job_id] = out.document]
           /\ job_records' = [job_records EXCEPT ![job_id] = StatusCompleted(job_records[job_id])]
           /\ completing' = completing (+) SetToBag({[job_id |-> job_id,
                                                     html_size |-> Len(out.document)]})
    /\ in_flight' = in_flight (-) SetToBag({job_id})
    /\ UNCHANGED <<GOOGLE_API_KEY, GROQ_API_KEY, ai_call>>
    /\ UNCHANGED <<active_jobs, next_job, upload_folder, now, cleanups>>
    /\ UNCHANGED <<parseVars, sweepVars>>

\* Lines 147-158: the rest of the job's fields, and the response.
GenerateRecord(request) ==
    /\ BagIn(request, completing)
    /\ completing' = completing (-) SetToBag({request})
    /\ job_records' = [job_records EXCEPT ![request.job_id] =
                          ArtifactRecorded(job_records[request.job_id], request.job_id, now,
                                           request.html_size)]
    /\ UNCHANGED <<active_jobs, next_job, upload_folder, generated_folder, artifact_written,
                   now, in_flight, cleanups>>
    /\ UNCHANGED <<libVars, parseVars, sweepVars>>

\* Lines 115-136, 161-166: a request that writes no artifact ends as one step.
GenerateFail(job_id, gemini_sdk, groq_sdk, fault, write_ok) ==
    /\ GenerateOutcome(job_id, AiResult(gemini_sdk, groq_sdk), fault, write_ok).document = None
    /\ GenerateEnd(job_id, gemini_sdk, groq_sdk, fault, write_ok)

InitThreads == Init

NextThreads ==
    \/ \E u \in UploadRequests : UploadAccepted(u.has_file, u.filename, u.pdf, MaxJobs)
    \/ \E job_id \in active_jobs :
          GenerateBegin(job_id, MaxInFlight - BagCardinality(completing))
    \/ \E job_id \in 1..next_job, gemini_sdk \in BackendOutcomes, groq_sdk \in BackendOutcomes :
          GenerateWrite(job_id, gemini_sdk, groq_sdk, FALSE)
    \/ \E request \in BagToSet(completing) : GenerateRecord(request)
    \/ \E job_id \in 1..next_job, gemini_sdk \in BackendOutcomes, groq_sdk \in BackendOutcomes,
          write_ok \in BOOLEAN :
          GenerateFail(job_id, gemini_sdk, groq_sdk, FALSE, write_ok)
    \/ \E job_id \in 0..MaxJobs : Preview(job_id)
    \/ Cleanup
    \/ Tick(MaxTime)

SpecThreads == InitThreads /\ [][NextThreads]_vars

\* cleanup, statement by statement.  A request under way is a record:
\*   at             where it is: "list", "stat" (the loop of lines 584-599 on
\*                  `folder`), "scan", "pop", "remove_artifact", "done"
\*   folder         the folder cleanup_old_files is sweeping
\*   names          what os.listdir returned and the loop has not yet looked at
\*   files          the list `files`, oldest first
\*   jobs_to_delete what is left of the list of lines 379-386
\*   popped         the job popped at line 389, 0 when pop returned None
\*   failed         the request ended in the except clause of line 402
\*   single         the store and the folders a cleanup running alone would
\*                  have left, taken when the first request started
CleanupRequests == {"first", "second"}

Files(folder) == {folder[i] : i \in 1..Len(folder)}

\* Lines 370-404 as one step, from the present state.
CleanupResult ==
    [active_jobs |-> active_jobs \ JobsToDelete(now),
     uploads     |-> Files(Sweep(upload_folder, CLEANUP_MAX_FILES)),
     generated   |-> Files(WithoutNames(Sweep(generated_folder, CLEANUP_MAX_FILES),
                                        EvictedArtifacts(JobsToDelete(now))))]

\* Lines 372-374: a request arrives.
StartCleanup ==
    /\ Len(cleanups) < Cardinality(CleanupRequests)
    /\ cleanups' = Append(cleanups,
          [at |-> "list", folder |-> "uploads", names |-> <<>>, files |-> <<>>,
           jobs_to_delete |-> <<>>, popped |-> 0, failed |-> FALSE,
           single |-> IF cleanups = <<>> THEN CleanupResult ELSE cleanups[1].single])
    /\ UNCHANGED <<active_jobs, job_records, next_job, upload_folder, generated_folder,
                   artifact_written, now, in_flight, completing>>
    /\ UNCHANGED <<libVars, parseVars, sweepVars>>

FolderOf(c) == IF c.folder = "uploads" THEN upload_folder ELSE generated_folder

\* What follows a sweep: the sweep of the generated folder, then the scan.
AfterSweep(c) ==
    IF c.folder = "uploads"
    THEN [c EXCEPT !.at = "list", !.folder = "generated", !.names = <<>>, !.files = <<>>]
    ELSE [c EXCEPT !.at = "scan", !.names = <<>>, !.files = <<>>]

\* A step of request i that changes only the request.
Local(i, c) ==
    /\ cleanups' = [cleanups EXCEPT ![i] = c]
    /\ UNCHANGED <<active_jobs, job_records, next_job, upload_folder, generated_folder,
                   artifact_written, now, in_flight, completing>>
    /\ UNCHANGED <<libVars, parseVars, sweepVars>>

\* Line 584: os.listdir.  The names are taken oldest first, the order line 590
\* sorts the stat-ed files into: no file is written while a cleanup runs here.
ListDir(i) ==
    /\ cleanups[i].at = "list"
    /\ Local(i, [cleanups[i] EXCEPT !.at = "stat", !.names = FolderOf(cleanups[i]),
                                    !.files = <<>>])

\* Lines 585-587: the next name is a file and its mtime is read.
StatFile(i) ==
    /\ cleanups[i].at = "stat" /\ cleanups[i].names # <<>>
    /\ InFolder(Head(cleanups[i].names), FolderOf(cleanups[i]))
    /\ Local(i, [cleanups[i] EXCEPT !.names = Tail(@), !.files = Append(@, Head(cleanups[i].names))])

\* Line 586: the file is gone, os.path.isfile is False and the name is skipped.
StatGone(i) ==
    /\ cleanups[i].at = "stat" /\ cleanups[i].names # <<>>
    /\ ~InFolder(Head(cleanups[i].names), FolderOf(cleanups[i]))
    /\ Local(i, [cleanups[i] EXCEPT !.names = Tail(@)])

\* Lines 587, 601-602: the file went between isfile and getmtime, getmtime
\* raises and the except clause of cleanup_old_files ends the sweep.
StatRaise(i) ==
    /\ cleanups[i].at = "stat" /\ cleanups[i].names # <<>>
    /\ ~InFolder(Head(cleanups[i].names), FolderOf(cleanups[i]))
    /\ Local(i, AfterSweep(cleanups[i]))

\* Lines 593-599: one turn of the while loop; os.remove of a file that is gone
\* raises into `except: pass`.
RemoveOldest(i) ==
    /\ cleanups[i].at = "stat" /\ cleanups[i].names = <<>>
    /\ Len(cleanups[i].files) > CLEANUP_MAX_FILES
    /\ cleanups' = [cleanups EXCEPT ![i].files = Tail(@)]
    /\ IF cleanups[i].folder = "uploads"
       THEN /\ upload_folder' = WithoutName(upload_folder, Head(cleanups[i].files))
            /\ UNCHANGED generated_folder
       ELSE /\ generated_folder' = WithoutName(generated_folder, Head(cleanups[i].files))
            /\ UNCHANGED upload_folder
    /\ UNCHANGED <<active_jobs, job_records, next_job, artifact_written, now, in_flight, completing>>
    /\ UNCHANGED <<libVars, parseVars, sweepVars>>

\* Line 593: the while loop ends.
SweepDone(i) ==
    /\ cleanups[i].at = "stat" /\ cleanups[i].names = <<>>
    /\ Len(cleanups[i].files) <= CLEANUP_MAX_FILES
    /\ Local(i, AfterSweep(cleanups[i]))

\* A set of job ids in the order of the dict: the order of insertion.
RECURSIVE InOrderOfInsertion(_)
InOrderOfInsertion(S) ==
    IF S = {}
    THEN <<>>
    ELSE LET j == CHOOSE x \in S : \A y \in S : x <= y
         IN  <<j>> \o InOrderOfInsertion(S \ {j})

\* Lines 378-386: the scan of list(active_jobs.items()), a copy the
\* interpreter takes in one step; created_at never changes.
Scan(i) ==
    /\ cleanups[i].at = "scan"
    /\ Local(i, [cleanups[i] EXCEPT !.at = "pop",
                                    !.jobs_to_delete = InOrderOfInsertion(JobsToDelete(now))])

\* Mutant of PopJob: a key that is gone raises KeyError.
PopJob_KeyError(store, job_id) ==
    [raised |-> job_id \notin store, job |-> IF job_id \in store THEN job_id ELSE 0,
     store |-> store \ {job_id}]

\* Line 389: active_jobs.pop(job_id, None).
PopJob(store, job_id) ==
    [raised |-> FALSE, job |-> IF job_id \in store THEN job_id ELSE 0,
     store |-> store \ {job_id}]

\* Lines 388-390: the next job is popped; with None for it the if of line 390
\* is false.  An exception here would end the request at line 402.
Pop(i) ==
    /\ cleanups[i].at = "pop" /\ cleanups[i].jobs_to_delete # <<>>
    /\ LET r == PopJob(active_jobs, Head(cleanups[i].jobs_to_delete))
       IN  /\ active_jobs' = IF r.raised THEN active_jobs ELSE r.store
           /\ cleanups' = [cleanups EXCEPT ![i] =
                 IF r.raised THEN [@ EXCEPT !.at = "done", !.failed = TRUE]
                 ELSE IF r.job = 0 THEN [@ EXCEPT !.jobs_to_delete = Tail(@)]
                 ELSE [@ EXCEPT !.at = "remove_artifact", !.popped = r.job]]
    /\ UNCHANGED <<job_records, next_job, upload_folder, generated_folder, artifact_written,
                   now, in_flight, completing>>
    /\ UNCHANGED <<libVars, parseVars, sweepVars>>

\* Lines 390-394: the artifact of the popped job is removed when the job has
\* one and it exists; os.remove of a file gone meanwhile raises into `except: pass`.
RemoveArtifact(i) ==
    /\ cleanups[i].at = "remove_artifact"
    /\ generated_folder' =
          IF job_records[cleanups[i].popped].generated_html_path # 0
          THEN WithoutName(generated_folder, job_records[cleanups[i].popped].generated_html_path)
          ELSE generated_folder
    /\ cleanups' = [cleanups EXCEPT ![i] = [@ EXCEPT !.at = "pop", !.popped = 0,
                                                     !.jobs_to_delete = Tail(@)]]
    /\ UNCHANGED <<active_jobs, job_records, next_job, upload_folder, artifact_written,
                   now, in_flight, completing>>
    /\ UNCHANGED <<libVars, parseVars, sweepVars>>

\* Lines 396-400: the response.
CleanupReturn(i) ==
    /\ cleanups[i].at = "pop" /\ cleanups[i].jobs_to_delete = <<>>
    /\ Local(i, [cleanups[i] EXCEPT !.at = "done"])

\* Lines 396-404: what a request that has ended returned.
CleanupThreadResponse(c) ==
    IF c.failed THEN Response(500, <<"Cleanup failed">>) ELSE Response(200, <<"success">>)

(***************************************************************************)
(* Two cleanup requests in threads of the server, on a store filled by     *)
(* uploads and generations that ran one after the other, the first jobs   *)
(* generated and the later ones not, the uploads in two batches, at the    *)
(* first hour and at the last.  Nothing else runs and the clock stands     *)
(* still once a cleanup has started.                                       *)
(***************************************************************************)
MaxJobsCleanups == 6

InitCleanups == InitLib({<<"k">>}, {TRUE}) /\ InitApp /\ IdleParse /\ IdleSweep

NextCleanups ==
    \/ /\ cleanups = <<>> /\ in_flight = EmptyBag /\ now \in {0, MaxTime}
       /\ \E u \in UploadRequests : UploadAccepted(u.has_file, u.filename, u.pdf, MaxJobsCleanups)
    \/ /\ cleanups = <<>>
       /\ \E job_id \in {j \in active_jobs : j = next_job /\ job_records[j].status = "uploaded"} :
             /\ \A k \in 1..(job_id - 1) : job_records[k].status = "completed"
             /\ GenerateBegin(job_id, 1)
    \/ /\ cleanups = <<>>
       /\ \E job_id \in 1..next_job : GenerateEnd(job_id, Answer, Answer, FALSE, TRUE)
    \/ cleanups = <<>> /\ in_flight = EmptyBag /\ Tick(MaxTime)
    \/ in_flight = EmptyBag /\ StartCleanup
    \/ \E i \in 1..Len(cleanups) :
          \/ ListDir(i) \/ StatFile(i) \/ StatGone(i) \/ StatRaise(i)
          \/ RemoveOldest(i) \/ SweepDone(i)
          \/ Scan(i) \/ Pop(i) \/ RemoveArtifact(i) \/ CleanupReturn(i)

SpecCleanups == InitCleanups /\ [][NextCleanups]_vars

(***************************************************************************)
(* Generate requests that return: the application with the uploads of the  *)
(* first hour, one request at the gateway at a time, every stage of        *)
(* generate_portfolio able to raise, and the backend call of a suspended   *)
(* request returning in the end.                                           *)
(***************************************************************************)
MaxJobsReturn == 1

\* Lines 92-109, 161-166: open() of prompt_template.txt or str.format raises
\* after line 102 has marked the job; no other request has run since the check
\* of line 94, so line 162 finds the job in the store.
GenerateTemplateFailedResponse == Response(500, <<"Generation failed: ", "exception">>)
GenerateTemplateFailed(job_id) ==
    /\ job_id \in active_jobs
    /\ job_records' = [job_records EXCEPT ![job_id] =
          GenerationFailed(Generating(job_records[job_id]), job_id \in active_jobs, <<"exception">>)]
    /\ UNCHANGED <<active_jobs, next_job, upload_folder, generated_folder,
                   artifact_written, now, in_flight>>
    /\ UNCHANGED <<libVars, parseVars, sweepVars, threadVars>>

\* Groq fails, so that the gateway answers with Gemini's text or raises.
GroqDown == [kind |-> "raise", text |-> <<"timeout">>]

\* Line 117 returns: the request of job_id resumes, whether the gateway
\* answered or raised and whichever later stage raises.
GenerateReturns(job_id) ==
    \E gemini_sdk \in BackendOutcomes, fault \in BOOLEAN, write_ok \in BOOLEAN :
       GenerateEnd(job_id, gemini_sdk, GroqDown, fault, write_ok)

InitReturn == InitLib({<<"k">>}, {TRUE}) /\ InitApp /\ IdleParse /\ IdleSweep

NextReturn ==
    \/ /\ now = 0
       /\ \E u \in UploadRequests : UploadAccepted(u.has_file, u.filename, u.pdf, MaxJobsReturn)
    \/ \E job_id \in active_jobs : GenerateBegin(job_id, 1)
    \/ \E job_id \in active_jobs : GenerateTemplateFailed(job_id)
    \/ \E job_id \in 1..next_job : GenerateReturns(job_id)
    \/ Cleanup
    \/ Tick(MaxTime)

\* The backend call of a request in flight returns.
SpecReturn ==
    /\ InitReturn /\ [][NextReturn]_vars
    /\ WF_vars(\E job_id \in 1..next_job : GenerateReturns(job_id))

(***************************************************************************)
(* The generation pipeline on answers of every shape: with and without     *)
(* delimiters, blank, fenced; the assembler's try body completing or not.  *)
(* Every token is generated once, one request at a time, the clock         *)
(* standing still.                                                         *)
(***************************************************************************)
MaxJobsAssembly == 2

AssemblyTexts ==
    {<<WS>>, <<"x">>, <<FENCE, "x">>, <<"x", DOCTYPE, "x">>, <<HTML_DELIM>>,
     <<HTML_DELIM, "x", CSS_DELIM, "x", JS_DELIM, "x">>}

\* Gemini fails, so that Groq's answer reaches the assembler as it was given,
\* not stripped; Groq fails or answers with any of the texts.
GeminiAssembly == {[kind |-> "raise", text |-> <<"timeout">>]}
GroqAssembly == {[kind |-> "raise", text |-> <<"timeout">>]} \cup [kind : {"return"}, text : AssemblyTexts]

InitAssembly == InitLib({<<"k">>}, {TRUE}) /\ InitApp /\ IdleParse /\ IdleSweep

NextAssembly ==
    \/ \E u \in UploadRequests : UploadAccepted(u.has_file, u.filename, u.pdf, MaxJobsAssembly)
    \/ \E job_id \in {j \in active_jobs : job_records[j].status = "uploaded"} :
          GenerateBegin(job_id, 1)
    \/ \E job_id \in 1..next_job, gemini_sdk \in GeminiAssembly, groq_sdk \in GroqAssembly,
          fault \in BOOLEAN, write_ok \in BOOLEAN :
          GenerateEnd(job_id, gemini_sdk, groq_sdk, fault, write_ok)

SpecAssembly == InitAssembly /\ [][NextAssembly]_vars

(***************************************************************************)
(* call_ai_api alone: every binding of the credentials, every outcome of   *)
(* the client constructors and of the two SDK calls, call after call.      *)
(***************************************************************************)
AllKeys == {None, <<>>, <<WS>>, <<"k">>}
BackendTexts == {<<>>, <<WS>>, <<"a">>, <<WS, "a">>, <<"b">>}

InitAI == InitLib(AllKeys, BOOLEAN) /\ InitApp /\ IdleParse /\ IdleSweep

CallAiApi(gemini_sdk, groq_sdk) ==
    LET r == call_ai_api(LAST_MODEL_USED, GOOGLE_API_KEY, GROQ_API_KEY, gemini_sdk, groq_sdk)
    IN  /\ LAST_MODEL_USED' = r.lmu
        /\ ai_call' = AiCallRecord(LAST_MODEL_USED, gemini_sdk, groq_sdk, r)
        /\ UNCHANGED <<GOOGLE_API_KEY, GROQ_API_KEY>>
        /\ UNCHANGED <<appVars, parseVars, sweepVars>>

NextAI ==
    \E gemini_sdk \in SdkOutcomes(BackendTexts), groq_sdk \in SdkOutcomes(BackendTexts) :
        CallAiApi(gemini_sdk, groq_sdk)

SpecAI == InitAI /\ [][NextAI]_vars

(***************************************************************************)
(* parse_and_create_complete_html alone, on every text up to MaxLen tokens.*)
(***************************************************************************)
MaxLen == 4
ParseAlphabet == {HTML_DELIM, CSS_DELIM, JS_DELIM, FENCE, "html", "css", "js", "javascript",
                  DOCTYPE, HTML_TAG, WS, "x"}

InitParse ==
    /\ InitLib({None}, {TRUE}) /\ InitApp /\ IdleSweep
    /\ p_text \in SeqsUpTo(ParseAlphabet, MaxLen)
    /\ p_fault \in BOOLEAN
    /\ p_done = FALSE
    /\ p_result = [raised |-> FALSE, document |-> <<>>, html_content |-> <<>>,
                   css_content |-> <<>>, js_content |-> <<>>]

\* The call, with the segments the function holds when it assembles the document.
Parse ==
    /\ ~p_done
    /\ LET r   == parse_and_create_complete_html(p_text, now, p_fault)
           seg == Segments(p_text)
       IN  p_result' = [raised |-> r.raised, document |-> r.document,
                        html_content |-> IF p_fault THEN <<>> ELSE seg.html_content,
                        css_content  |-> IF p_fault THEN <<>> ELSE seg.css_content,
                        js_content   |-> IF p_fault THEN <<>> ELSE seg.js_content]
    /\ p_done' = TRUE
    /\ UNCHANGED <<p_text, p_fault>>
    /\ UNCHANGED <<libVars, appVars, sweepVars>>

NextParse == Parse

SpecParse == InitParse /\ [][NextParse]_vars

(***************************************************************************)
(* cleanup_old_files alone, on every directory up to MaxEntries entries.   *)
(***************************************************************************)
MaxEntries == 4
MaxMtime == 2
MaxKeep == 3

Directories ==
    UNION {[1..k -> [name : {0}, isfile : BOOLEAN, mtime : 0..MaxMtime]] : k \in 0..MaxEntries}

\* The entries of a directory have distinct names: entry i is named i.
Named(dir) == [i \in 1..Len(dir) |-> [dir[i] EXCEPT !.name = i]]

InitSweep ==
    /\ InitLib({None}, {TRUE}) /\ InitApp /\ IdleParse
    /\ s_entries \in {Named(dir) : dir \in Directories}
    /\ s_max_files \in 0..MaxKeep
    /\ s_done = FALSE
    /\ s_result = <<>>

SweepFolder ==
    /\ ~s_done
    /\ s_result' = cleanup_old_files(s_entries, s_max_files)
    /\ s_done' = TRUE
    /\ UNCHANGED <<s_entries, s_max_files>>
    /\ UNCHANGED <<libVars, appVars, parseVars>>

NextSweep == SweepFolder

SpecSweep == InitSweep /\ [][NextSweep]_vars

(***************************************************************************)
(* Properties.                                                             *)
(***************************************************************************)
Terminal == {"completed", "failed"}

\* C1: once a job of the Job Store is completed or failed, the next state never
\* shows it generating or uploaded.
C1_StatusNeverMovesBackward ==
    [][\A j \in active_jobs :
          job_records[j].status \in Terminal
              => job_records'[j].status \notin {"generating", "uploaded"}]_vars

\* A backend is available: its flag was set when the call started and its
\* credential is bound.
GeminiAvailable == Truthy(GOOGLE_API_KEY) /\ ai_call.before.gemini_available
GroqAvailable == Truthy(GROQ_API_KEY) /\ ai_call.before.groq_available

\* A backend answered: its SDK call returned a text that is not empty (for
\* Gemini: not blank, the text being stripped).
GeminiAnswered ==
    /\ ai_call.gemini_sdk.kind = "return"
    /\ ai_call.gemini_sdk.text \notin {None, <<>>}
    /\ \E i \in 1..Len(ai_call.gemini_sdk.text) : ai_call.gemini_sdk.text[i] # WS
GroqAnswered ==
    /\ ai_call.groq_sdk.kind = "return"
    /\ ai_call.groq_sdk.text \notin {None, <<>>}

\* C2: call_ai_api raises exactly when no available backend answered, and
\* returns a non-empty string otherwise.
C2_RaisesIffNoBackendAnswered ==
    ai_call.done =>
        /\ ai_call.raised <=> ~((GeminiAvailable /\ GeminiAnswered) \/ (GroqAvailable /\ GroqAnswered))
        /\ ~ai_call.raised => ai_call.value \notin {None, <<>>}

C2_Witness ==
    /\ ai_call.done /\ ai_call.raised
    /\ GeminiAvailable /\ GroqAvailable
    /\ ai_call.gemini_sdk.kind = "return" /\ ai_call.groq_sdk.kind = "return"

\* C3: Gemini available and failing, Groq available and answering r: the call
\* returns r and the diagnostic record names Groq.
C3_FallbackToGroq ==
    (ai_call.done /\ GeminiAvailable /\ ~GeminiAnswered /\ GroqAvailable /\ GroqAnswered) =>
        /\ ~ai_call.raised
        /\ ai_call.value = ai_call.groq_sdk.text
        /\ LAST_MODEL_USED.model = "Groq"
        /\ LAST_MODEL_USED.provider = "Groq"

C3_Witness ==
    /\ ai_call.done /\ GeminiAvailable /\ ~GeminiAnswered /\ GroqAvailable /\ GroqAnswered
    /\ ai_call.groq_sdk.text = <<WS, "a">>
    /\ ai_call.before.model = "Gemini"

\* C4: the backends are called in the order Gemini, Groq, each at most once, an
\* unavailable one never, and Groq only when Gemini was skipped or gave nothing.
C4_OrderAndAtMostOnce ==
    ai_call.done =>
        /\ ai_call.invoked \in {<<>>, <<"Gemini">>, <<"Groq">>, <<"Gemini", "Groq">>}
        /\ ~ai_call.before.gemini_available => ai_call.invoked \in {<<>>, <<"Groq">>}
        /\ ~ai_call.before.groq_available => ai_call.invoked \in {<<>>, <<"Gemini">>}
        /\ GeminiAvailable => Len(ai_call.invoked) > 0 /\ ai_call.invoked[1] = "Gemini"
        /\ (GeminiAvailable /\ GeminiAnswered) => ai_call.invoked = <<"Gemini">>
        /\ ai_call.invoked = <<"Gemini", "Groq">> => ai_call.gemini \in {None, <<>>}

C4_Witness == ai_call.done /\ ai_call.invoked = <<"Gemini", "Groq">> /\ ~ai_call.raised

\* C5: with both availability flags false, a generate request that returns has
\* the aggregate provider error as its response, leaves the job failed and
\* writes no artifact.
C5_AllUnavailableGenerateFails ==
    [][(~LAST_MODEL_USED.gemini_available /\ ~LAST_MODEL_USED.groq_available) =>
          \A j \in 1..next_job :
              (BagIn(j, in_flight) /\ in_flight' = in_flight (-) SetToBag({j})) =>
                  /\ \A g \in BackendOutcomes, q \in BackendOutcomes, w \in BOOLEAN :
                        GenerateResponse(j, g, q, FALSE, w)
                            = [code |-> 500,
                               body |-> <<"AI generation failed: ", "All AI services unavailable">>]
                  /\ job_records'[j].status = "failed"
                  /\ job_records'[j].error = <<"All AI services unavailable">>
                  /\ job_records'[j].generated_html_path = job_records[j].generated_html_path
                  /\ generated_folder' = generated_folder
                  /\ artifact_written' = artifact_written]_vars

C5_Witness ==
    /\ ~LAST_MODEL_USED.gemini_available /\ ~LAST_MODEL_USED.groq_available
    /\ \E j \in active_jobs :
          /\ job_records[j].status = "failed"
          /\ job_records[j].error = <<"All AI services unavailable">>
          /\ ~InFolder(j, generated_folder)

\* C6: when cleanup has run, no job of the store is older than one hour at the
\* time of its scan, and no artifact file of a job it removed is on disk.
C6_CleanupEvicts ==
    [][Cleanup =>
          /\ \A j \in active_jobs' : now - job_records'[j].created_at <= 1
          /\ \A j \in active_jobs \ active_jobs' : ~InFolder(j, generated_folder')]_vars

C6_Witness ==
    \E j \in 1..next_job :
        /\ j \notin active_jobs
        /\ job_records[j].generated_html_path = j
        /\ ~InFolder(j, generated_folder)

\* The regular files of a directory, by name.
FilesOf(dir) == {i \in 1..Len(dir) : dir[i].isfile}
NamesOf(dir) == {dir[i].name : i \in 1..Len(dir)}

\* C7: a sweep of a directory with more than max_files files leaves max_files
\* of them, none older than a removed one; any other directory is unchanged.
C7_SweepKeepsNewest ==
    s_done =>
        LET files   == {s_entries[i].name : i \in FilesOf(s_entries)}
            kept    == files \cap NamesOf(s_result)
            removed == files \ kept
        IN  IF Cardinality(files) > s_max_files
            THEN /\ Cardinality(kept) = s_max_files
                 /\ \A r \in removed, k \in kept : s_entries[r].mtime <= s_entries[k].mtime
                 /\ s_result = SelectSeq(s_entries, LAMBDA e : e.name \notin removed)
            ELSE s_result = s_entries

C7_Witness ==
    /\ s_done
    /\ Cardinality(FilesOf(s_entries)) > s_max_files + 1
    /\ Len(s_result) < Len(s_entries)
    /\ \E i \in FilesOf(s_entries), k \in FilesOf(s_entries) :
          i < k /\ s_entries[i].mtime > s_entries[k].mtime /\ i \in NamesOf(s_result)

\* C8: in every state preview returns, for a completed job of the store, the
\* document generate wrote for it, and a redirect for any other token.
C8_PreviewReturnsArtifact ==
    \A j \in 0..next_job :
        IF j \in active_jobs /\ job_records[j].status = "completed"
        THEN PreviewResponse(j) = [code |-> 200, body |-> artifact_written[j]]
        ELSE PreviewResponse(j) = [code |-> 302, body |-> <<"/">>]

\* C9: parse_and_create_complete_html raises on no text and returns a
\* non-empty document for every text, the empty one included.
C9_AssemblerTotal ==
    p_done => ~p_result.raised /\ Len(p_result.document) > 0

C9_Witness == p_done /\ p_text = <<>> /\ ~p_fault /\ Len(p_result.document) > 0

\* The delimiters occur in the order HTML, CSS, JS; h, c, j: the first HTML
\* delimiter, the first CSS delimiter after it, the first JS delimiter after that.
Occurrences(text, tok) == {i \in 1..Len(text) : text[i] = tok}
InOrder(text) ==
    \E h \in Occurrences(text, HTML_DELIM), c \in Occurrences(text, CSS_DELIM),
       j \in Occurrences(text, JS_DELIM) : h < c /\ c < j
Least(S) == CHOOSE x \in S : \A y \in S : x <= y
FirstHtml(text) == Least(Occurrences(text, HTML_DELIM))
FirstCss(text) == Least({c \in Occurrences(text, CSS_DELIM) : c > FirstHtml(text)})
FirstJs(text) == Least({j \in Occurrences(text, JS_DELIM) : j > FirstCss(text)})

\* The three segments as the texts between the delimiters, fences removed.
SegmentsBetween(text) ==
    [html_content |-> CleanHtml(SubSeq(text, FirstHtml(text) + 1, FirstCss(text) - 1)),
     css_content  |-> CleanCss(SubSeq(text, FirstCss(text) + 1, FirstJs(text) - 1)),
     js_content   |-> CleanJs(SubSeq(text, FirstJs(text) + 1, Len(text)))]

SegmentsOf(result) ==
    [html_content |-> result.html_content, css_content |-> result.css_content,
     js_content |-> result.js_content]

EachOnce(text) ==
    /\ Cardinality(Occurrences(text, HTML_DELIM)) = 1
    /\ Cardinality(Occurrences(text, CSS_DELIM)) = 1
    /\ Cardinality(Occurrences(text, JS_DELIM)) = 1

FenceStripped(text) == Remove(Remove(text, <<FENCE, "html">>), <<FENCE>>)

\* The suffix of the text from the first occurrence of tok.
SuffixFrom(text, tok) == SubSeq(text, Least(Occurrences(text, tok)), Len(text))

\* C11 as stated: for every text without the HTML delimiter, the style and
\* behavior segments are empty and the markup segment is the whole text with
\* its fence markers stripped (trimmed or not), or the suffix from the first
\* document-type declaration or opening root tag when one is present.
C11_NoDelimiterFenceStripped ==
    (p_done /\ ~p_fault /\ ~Contains(p_text, HTML_DELIM)) =>
        /\ p_result.css_content = <<>>
        /\ p_result.js_content = <<>>
        /\ \/ p_result.html_content \in {FenceStripped(p_text), Strip(FenceStripped(p_text))}
           \/ /\ Occurrences(p_text, DOCTYPE) # {}
              /\ p_result.html_content = SuffixFrom(p_text, DOCTYPE)
           \/ /\ Occurrences(p_text, HTML_TAG) # {}
              /\ p_result.html_content = SuffixFrom(p_text, HTML_TAG)

\* C11 amended: for every text without the HTML delimiter, the style and
\* behavior segments are empty and the markup segment is the suffix from the
\* first document-type declaration when there is one, else the suffix from the
\* first opening root tag when there is one, else the whole text verbatim,
\* fence markers and surrounding whitespace included.
C11_NoDelimiterVerbatim ==
    (p_done /\ ~p_fault /\ ~Contains(p_text, HTML_DELIM)) =>
        /\ p_result.css_content = <<>>
        /\ p_result.js_content = <<>>
        /\ p_result.html_content =
              IF Occurrences(p_text, DOCTYPE) # {} THEN SuffixFrom(p_text, DOCTYPE)
              ELSE IF Occurrences(p_text, HTML_TAG) # {} THEN SuffixFrom(p_text, HTML_TAG)
              ELSE p_text

C11_Witness ==
    /\ p_done /\ ~p_fault
    /\ p_text = <<FENCE, "html", "x", FENCE>>
    /\ p_result.html_content = <<FENCE, "html", "x", FENCE>>
    /\ p_result.css_content = <<>> /\ p_result.js_content = <<>>

\* C12: once a generate request has written the artifact of a job token, no
\* later step changes the content stored at that path while the file is there.
C12_ArtifactImmutable ==
    [][\A j \in 1..next_job :
          (FileContent(j) # None /\ InFolder(j, generated_folder')) =>
              artifact_written'[j] = artifact_written[j]]_vars

\* C13: when cleanup removes a job from the store, neither the uploaded source
\* file of its record nor its generated artifact is on disk afterwards.
C13_EvictionDeletesFiles ==
    [][Cleanup =>
          \A j \in active_jobs \ active_jobs' :
              /\ ~InFolder(job_records[j].filepath, upload_folder')
              /\ ~InFolder(j, generated_folder')]_vars

\* The message of the exception of the last backend attempt that ended in an
\* error, None when no attempt did.
LastBackendError ==
    IF \E i \in 1..Len(ai_call.invoked) : ai_call.invoked[i] = "Groq" /\ ai_call.groq_sdk.kind = "raise"
    THEN ai_call.groq_sdk.text
    ELSE IF \E i \in 1..Len(ai_call.invoked) :
               ai_call.invoked[i] = "Gemini" /\ ai_call.gemini_sdk.kind = "raise"
         THEN ai_call.gemini_sdk.text
         ELSE None

\* sub occurs in s.
Includes(s, sub) == \E i \in 1..(Len(s) - Len(sub) + 1) : SubSeq(s, i, i + Len(sub) - 1) = sub

\* C14: when call_ai_api raises after a backend attempt ended in an error, the
\* aggregate message includes that error's text, cut at 200 characters, and
\* LAST_MODEL_USED['last_error'] holds the text.
C14_AggregateErrorCarriesLastError ==
    (ai_call.done /\ ai_call.raised /\ LastBackendError # None) =>
        /\ Includes(ai_call.value, Take(LastBackendError, ERROR_LIMIT))
        /\ LAST_MODEL_USED.last_error = LastBackendError

\* C15: when the call of the Provider Gateway in a generate request raises, the
\* request leaves the job failed with the raised message as its error, and the
\* artifact's path, completion time and size of the job as they were.
C15_ProviderFailureMarksFailed ==
    [][\A j \in 1..next_job :
          (BagIn(j, in_flight) /\ in_flight' = in_flight (-) SetToBag({j})) =>
          \A g \in BackendOutcomes, q \in BackendOutcomes, w \in BOOLEAN :
          (AiResult(g, q).raised /\ GenerateEnd(j, g, q, FALSE, w)) =>
              /\ job_records'[j].status = "failed"
              /\ job_records'[j].error = AiResult(g, q).value
              /\ job_records'[j].generated_html_path = job_records[j].generated_html_path
              /\ job_records'[j].completed_at = job_records[j].completed_at
              /\ job_records'[j].html_size = job_records[j].html_size]_vars

\* A job completed by one request and failed by a later one, its backends
\* available and failing.
C15_Witness ==
    /\ LAST_MODEL_USED.gemini_available /\ LAST_MODEL_USED.groq_available
    /\ \E j \in active_jobs :
          /\ job_records[j].status = "failed"
          /\ job_records[j].error = <<"All AI services unavailable">>
          /\ job_records[j].generated_html_path = j
          /\ job_records[j].html_size > 0

\* C16: whenever the Provider Gateway returns a non-empty response and the
\* artifact file can be written, the request leaves the job completed and the
\* artifact is the assembled document or the fallback document of the response.
C16_AssemblyNeverFailsJob ==
    [][\A j \in 1..next_job :
          (BagIn(j, in_flight) /\ in_flight' = in_flight (-) SetToBag({j})) =>
          \A g \in GeminiAssembly, q \in GroqAssembly, fault \in BOOLEAN :
          (~AiResult(g, q).raised /\ GenerateEnd(j, g, q, fault, TRUE)) =>
              /\ job_records'[j].status = "completed"
              /\ InFolder(j, generated_folder')
              /\ artifact_written'[j] \in {CompleteHtml(Segments(AiResult(g, q).value), now),
                                          FallbackDocument(AiResult(g, q).value)}]_vars

\* A job completed with the fallback document of a fenced answer as its artifact.
C16_Witness ==
    \E j \in active_jobs :
        /\ job_records[j].status = "completed"
        /\ FileContent(j) = FallbackDocument(<<FENCE, "x">>)

\* The uploads that pass the checks of the file part and its name and whose
\* extracted text is empty.
EmptyTextUploads ==
    {u \in UploadRequests :
        /\ u.has_file /\ u.filename # <<>> /\ allowed_file(u.filename)
        /\ \A i \in 1..Len(extract_text_from_pdf(u.pdf)) : extract_text_from_pdf(u.pdf)[i] = WS}

\* C17: an upload whose extracted text is empty is answered with a client
\* error, leaves the Job Store as it was and leaves no file of its own in the
\* upload folder.
C17_EmptyTextUploadRejected ==
    [][\A u \in EmptyTextUploads :
          (UploadRejected(u.has_file, u.filename, u.pdf)
              \/ UploadAccepted(u.has_file, u.filename, u.pdf, MaxJobs)) =>
              /\ UploadResponse(u.has_file, u.filename, u.pdf).code = 400
              /\ active_jobs' = active_jobs
              /\ job_records' = job_records
              /\ ~InFolder(next_job + 1, upload_folder')
              /\ upload_folder' = upload_folder]_vars

\* With a job in the store and its file on disk, an upload without text is
\* one the handler rejects.
C17_Witness ==
    /\ active_jobs # {} /\ upload_folder # <<>>
    /\ \E u \in EmptyTextUploads :
          /\ u.pdf.kind = "ok"
          /\ UploadResponse(u.has_file, u.filename, u.pdf)
                = Response(400, <<"Could not extract text from PDF">>)
          /\ ENABLED UploadRejected(u.has_file, u.filename, u.pdf)

\* C18: no step takes a job from uploaded to completed or failed: a job that
\* becomes completed or failed from a status that is neither was generating.
C18_NeverSkipsGenerating ==
    [][\A j \in 1..next_job :
          /\ job_records[j].status = "uploaded" => job_records'[j].status \in {"uploaded", "generating"}
          /\ (job_records[j].status \notin Terminal /\ job_records'[j].status \in Terminal)
                => job_records[j].status = "generating"]_vars

\* A job that went from uploaded through generating to failed, by a request
\* whose artifact could not be written; no request is in flight.
C18_Witness ==
    /\ in_flight = EmptyBag
    /\ \E j \in active_jobs :
          /\ job_records[j].status = "failed"
          /\ job_records[j].error = <<"exception">>
          /\ job_records[j].generated_html_path = 0

\* C20: in every state a concurrent request can observe, a job of the store
\* whose status is completed has its generated_html_path set.
C20_CompletedHasPath ==
    \A j \in active_jobs :
        job_records[j].status = "completed" => job_records[j].generated_html_path # 0


\* C19: two cleanup requests interleaved statement by statement, with nothing
\* else running, are harmless: once both have ended neither has failed, and
\* the Job Store and the files of the upload and generated folders are those
\* a single cleanup would have left.
C19_ConcurrentCleanupsHarmless ==
    (/\ Len(cleanups) = Cardinality(CleanupRequests)
     /\ \A i \in 1..Len(cleanups) : cleanups[i].at = "done")
    => /\ \A i \in 1..Len(cleanups) : CleanupThreadResponse(cleanups[i]).code = 200
       /\ active_jobs = cleanups[1].single.active_jobs
       /\ Files(upload_folder) = cleanups[1].single.uploads
       /\ Files(generated_folder) = cleanups[1].single.generated

\* Both requests have ended, on a store of which a cleanup evicted a job and
\* swept an upload and left a job and a generated file.
C19_Witness ==
    /\ Len(cleanups) = Cardinality(CleanupRequests)
    /\ \A i \in 1..Len(cleanups) : cleanups[i].at = "done"
    /\ active_jobs # {}
    /\ Cardinality(active_jobs) < next_job
    /\ Cardinality(Files(upload_folder)) < next_job
    /\ Cardinality(Files(generated_folder)) = 1


\* C21: whatever the interleaving of generate and cleanup requests, every
\* artifact file in the generated folder is the file of a job that is in the
\* Job Store: no artifact is on disk for a token without a job record.
C21_ArtifactsBelongToJobs ==
    \A j \in 1..next_job : InFolder(j, generated_folder) => j \in active_jobs


Invoked(call, backend) == \E i \in 1..Len(call.invoked) : call.invoked[i] = backend

\* A backend was invoked in the last call and gave nothing.
GeminiFailed == ai_call.done /\ Invoked(ai_call, "Gemini") /\ ~GeminiAnswered
GroqFailed == ai_call.done /\ Invoked(ai_call, "Groq") /\ ~GroqAnswered

\* call_ai_api leaves both availability flags as it found them.
FlagsKept ==
    /\ LAST_MODEL_USED'.gemini_available = LAST_MODEL_USED.gemini_available
    /\ LAST_MODEL_USED'.groq_available = LAST_MODEL_USED.groq_available

\* A backend whose flag is false is not invoked by the next call.
UnavailableNeverInvoked ==
    /\ ~LAST_MODEL_USED.gemini_available => ~Invoked(ai_call', "Gemini")
    /\ ~LAST_MODEL_USED.groq_available => ~Invoked(ai_call', "Groq")

\* C23 as stated: a call of call_ai_api leaves both availability flags
\* unchanged, invokes again each backend that failed in the call before, and
\* invokes no backend whose flag is false.
C23_FailedBackendAlwaysRetried ==
    [][/\ FlagsKept
       /\ UnavailableNeverInvoked
       /\ GeminiFailed => Invoked(ai_call', "Gemini")
       /\ GroqFailed => Invoked(ai_call', "Groq")]_vars

\* C23: a call of call_ai_api leaves both availability flags unchanged and
\* invokes no backend whose flag is false; Gemini, once invoked, is invoked in
\* every later call, and Groq, once invoked, in every later call that Gemini
\* does not answer.
C23_FlagsKeptBackendsRetried ==
    [][/\ FlagsKept
       /\ UnavailableNeverInvoked
       /\ (ai_call.done /\ Invoked(ai_call, "Gemini")) => LAST_MODEL_USED.gemini_available
       /\ (ai_call.done /\ Invoked(ai_call, "Groq")) => LAST_MODEL_USED.groq_available
       /\ LAST_MODEL_USED.gemini_available => Invoked(ai_call', "Gemini")
       /\ LAST_MODEL_USED.groq_available =>
             \/ Invoked(ai_call', "Groq")
             \/ ai_call'.invoked = <<"Gemini">> /\ ~ai_call'.raised]_vars

\* Gemini, which failed in an earlier call that Groq answered, is invoked again
\* and answers; Groq, available, is not invoked in this call.
C23_Witness ==
    /\ ai_call.done /\ ~ai_call.raised
    /\ ai_call.before.model = "Groq"
    /\ ai_call.invoked = <<"Gemini">>
    /\ LAST_MODEL_USED.model = "Gemini"
    /\ LAST_MODEL_USED.gemini_available /\ LAST_MODEL_USED.groq_available

====
